---- MODULE Spec2Model ----
(***************************************************************************)
(* Benkyou: the batch dispatch controller (analysis.analyze_batches), the *)
(* streaming hook of main (main._on_batch) and the note store entry point *)
(* it calls (note.save_batch), as a state machine.                         *)
(*                                                                         *)
(* One controller thread runs analyze_batches.  Every attempt submits one *)
(* call of generate_json_with_model to a fresh one-worker executor; the   *)
(* worker thread runs concurrently with the controller and ends by        *)
(* returning a text or by raising.  Nothing forces a call to end.         *)
(***************************************************************************)
EXTENDS Integers, Sequences, FiniteSets, TLC

\* ---------------------------------------------------------------- bounds
\* Number of batches batch_sentences may hand to the dispatch loop.
MaxBatches == 2
\* Largest max_retries explored (main passes 5).
MaxRetries == 5
\* timeout_secs and tick_interval_secs, scaled down (main passes 30 and 3):
\* the tick does not divide the timeout, so the last wait is clamped.
timeout_secs == 3
tick_interval_secs == 2
\* Largest number of records in one service response.
MaxRecords == 1
\* batch_sentences: number of input sentences, characters per sentence, and
\* the largest min_chars explored.
MaxSentences == 2
MaxSentenceLen == 2
MaxMinChars == 4
\* _try_parse_json_array: characters in a response text.
MaxTextLen == 5
\* save_batch: records and pieces in all the responses of one run together.
MaxItems == 4

VARIABLES
    output_lib,     \* cfg.output_lib as save_batch reads it
    max_retries,    \* parameter of analyze_batches
    total,          \* len(batches)
    pc,             \* position of the controller thread
    idx,            \* batch index of the for loop (1-based), 0 before the loop
    attempt,        \* attempt number of the inner for loop, 0 before its first
    elapsed,        \* elapsed, as the polling loop last computed it
    last_err,       \* last_err
    fut,            \* the Future of the current attempt
    running,        \* calls whose worker thread is inside generate_json_with_model
    results,        \* results: the texts appended so far
    delivered,      \* the call whose text was appended for the current batch (line 193)
    calls,          \* attempt numbers submitted for the current batch, in order
    fail_log,       \* failed attempts of the current batch, as logged (lines 205, 209)
    raised,         \* RuntimeErrors raised by analyze_batches: batch and last_err
    exit_status,    \* return value of main: -1 while running
    holder,         \* sentence_index_holder["idx"] of main
    written,        \* sentence documents written, in write order
    cb_failed,      \* batches whose on_batch hook raised (line 201)
    b_pc,           \* batch_sentences: "idle", "ready" (called) or "done" (returned)
    b_sentences,    \* batch_sentences: the argument sentences
    b_min_chars,    \* batch_sentences: the argument min_chars
    b_out,          \* batch_sentences: batches, buf and count when the loop ended
    p_text,         \* _try_parse_json_array: a response text
    p_layout,       \* the code fence put around p_text, if any
    p_plain,        \* what _try_parse_json_array returned for p_text
    p_fenced,       \* what it returned for p_text inside the fence
    n_sentence,     \* the sentence directory: file stem -> content
    n_piece,        \* the piece directory: file stem -> content
    n_index,        \* main's sentence_index_holder["idx"]
    n_responses,    \* the responses save_batch has been called with, in order
    n_fail,         \* which piece write of the last save_batch call raised (0: none)
    n_raised        \* some save_batch call has raised

\* The variables of analyze_batches and of main's streaming run.
dispatch == <<output_lib, max_retries, total, pc, idx, attempt, elapsed, last_err,
              fut, running, results, delivered, calls, fail_log, raised, exit_status,
              holder, written, cb_failed>>
\* The variables of batch_sentences.
batcher == <<b_pc, b_sentences, b_min_chars, b_out>>
\* The variables of _try_parse_json_array.
parser == <<p_text, p_layout, p_plain, p_fenced>>
\* The variables of save_batch called batch after batch on one store.
notes == <<n_sentence, n_piece, n_index, n_responses, n_fail, n_raised>>
\* What the dispatch loop never touches.
offline == <<batcher, parser, notes>>

vars == <<dispatch, offline>>

ctl == <<pc, idx, attempt, elapsed, last_err, calls, fail_log, raised, exit_status>>
store == <<holder, written, cb_failed>>
params == <<output_lib, max_retries, total>>

\* ------------------------------------------------------------ data
\* A service response: the call that produced it and what it parses to
\* (array = FALSE: a text _try_parse_json_array returns None for; n: the
\* number of records of the array).
Texts(c) == {[call |-> c, array |-> FALSE, n |-> 0]}
            \cup {[call |-> c, array |-> TRUE, n |-> k] : k \in 0..MaxRecords}

NoFuture == [st |-> "none", call |-> <<0, 0>>, array |-> FALSE, n |-> 0]
Pending(c) == [st |-> "pending", call |-> c, array |-> FALSE, n |-> 0]
Result(t) == [st |-> "result", call |-> t.call, array |-> t.array, n |-> t.n]
Exception(c) == [st |-> "exception", call |-> c, array |-> FALSE, n |-> 0]
\* The call raised TimeoutError, which is FuturesTimeoutError itself where
\* concurrent.futures.TimeoutError is the builtin (Python 3.11 on).
TimeoutException(c) == [st |-> "timeout_error", call |-> c, array |-> FALSE, n |-> 0]

\* The log of the failed attempts of one batch: how many timed out, how many
\* raised, and the kind of the latest.
NoFailures == [timeout |-> 0, error |-> 0, last |-> "None"]
LogFailure(log, kind) ==
    [timeout |-> log.timeout + (IF kind = "timeout" THEN 1 ELSE 0),
     error |-> log.error + (IF kind = "error" THEN 1 ELSE 0),
     last |-> kind]
Failures(log) == log.timeout + log.error

Min(a, b) == IF a < b THEN a ELSE b

\* ------------------------------------------------------------ note store
\* What one save_batch call can do: ok = it returned, w = the number of
\* sentence documents it wrote before returning or raising.
SaveBatchOutcomes(out) ==
    IF output_lib # "set"
    THEN {[ok |-> FALSE, w |-> 0]}
    ELSE {[ok |-> FALSE, w |-> 0]}
         \cup (IF ~out.array
               THEN {[ok |-> TRUE, w |-> 0]}
               ELSE {[ok |-> TRUE, w |-> out.n]}
                    \cup {[ok |-> FALSE, w |-> k] : k \in 0..out.n})

\* The sentence documents a save_batch call writes, starting at index cur.
SentenceWrites(cur, w, batch) ==
    [i \in 1..w |-> [index |-> cur + i - 1, batch |-> batch]]

\* on_batch(idx, out, batch) under the try of lines 197-201.
OnBatch(out, o) ==
    /\ written' = written \o SentenceWrites(holder, o.w, idx)
    /\ holder' = IF o.ok THEN holder + o.w ELSE holder
    /\ cb_failed' = IF o.ok THEN cb_failed ELSE cb_failed \cup {idx}

\* ------------------------------------------------------------ Init
\* batch_sentences is not being called.
BatcherIdle ==
    /\ b_pc = "idle"
    /\ b_sentences = <<>>
    /\ b_min_chars = 0
    /\ b_out = [batches |-> <<>>, buf |-> <<>>, count |-> 0, made |-> <<>>]

\* _try_parse_json_array is not being called.
ParserIdle ==
    /\ p_text = <<>>
    /\ p_layout = [fence |-> FALSE, tag |-> FALSE, open_alone |-> FALSE, close_alone |-> FALSE]
    /\ p_plain = [st |-> "idle", val |-> <<>>]
    /\ p_fenced = [st |-> "idle", val |-> <<>>]

\* save_batch is not being called.
NotesIdle ==
    /\ n_sentence = <<>>
    /\ n_piece = <<>>
    /\ n_index = 0
    /\ n_responses = <<>>
    /\ n_fail = 0
    /\ n_raised = FALSE

Init ==
    /\ output_lib \in {"absent", "empty", "set"}
    /\ max_retries \in 1..MaxRetries
    /\ total \in 0..MaxBatches
    /\ pc = "for_batch"
    /\ idx = 0
    /\ attempt = 0
    /\ elapsed = 0
    /\ last_err = "None"
    /\ fut = NoFuture
    /\ running = {}
    /\ results = <<>>
    /\ delivered = <<0, 0>>
    /\ calls = <<>>
    /\ fail_log = NoFailures
    /\ raised = <<>>
    /\ exit_status = -1
    /\ holder = 0
    /\ written = <<>>
    /\ cb_failed = {}
    /\ BatcherIdle
    /\ ParserIdle
    /\ NotesIdle

\* ------------------------------------------------------------ controller
\* for idx, batch in enumerate(batches, 1): the next batch.
StartBatch ==
    /\ pc = "for_batch"
    /\ idx < total
    /\ idx' = idx + 1
    /\ attempt' = 0
    /\ last_err' = "None"
    /\ calls' = <<>>
    /\ fail_log' = NoFailures
    /\ delivered' = <<0, 0>>
    /\ pc' = "for_attempt"
    /\ UNCHANGED <<elapsed, fut, running, results, raised, exit_status>>
    /\ UNCHANGED store
    /\ UNCHANGED params
    /\ UNCHANGED offline

\* The loop over the batches is exhausted: return results, main returns 0.
Return ==
    /\ pc = "for_batch"
    /\ idx = total
    /\ pc' = "returned"
    /\ exit_status' = 0
    /\ UNCHANGED <<idx, attempt, elapsed, last_err, fut, running, results, delivered, calls,
                   fail_log, raised>>
    /\ UNCHANGED store
    /\ UNCHANGED params
    /\ UNCHANGED offline

\* Mutant: the range runs one attempt too far.
AttemptsRemainOffByOne == attempt <= max_retries

\* range(1, max_retries + 1) has another attempt.
AttemptsRemain == attempt < max_retries

\* for attempt in range(...): executor.submit(generate_json_with_model, ...).
Submit ==
    /\ pc = "for_attempt"
    /\ AttemptsRemain
    /\ attempt' = attempt + 1
    /\ calls' = Append(calls, attempt + 1)
    /\ fut' = Pending(<<idx, attempt + 1>>)
    /\ running' = running \cup {<<idx, attempt + 1>>}
    /\ elapsed' = 0
    /\ pc' = "waiting"
    /\ UNCHANGED <<idx, last_err, results, delivered, fail_log, raised, exit_status>>
    /\ UNCHANGED store
    /\ UNCHANGED params
    /\ UNCHANGED offline

\* Mutant: the exhausted batch is given up and the loop goes on.
AfterFatalContinue ==
    /\ pc' = "for_batch"
    /\ exit_status' = exit_status

\* What follows the RuntimeError of the for-else: it leaves analyze_batches
\* and main returns 1.
AfterFatal ==
    /\ pc' = "raised"
    /\ exit_status' = 1

\* for ... else: every attempt failed, raise RuntimeError(... last_err).
Fatal ==
    /\ pc = "for_attempt"
    /\ ~AttemptsRemain
    /\ raised' = Append(raised, [batch |-> idx, err |-> last_err])
    /\ AfterFatal
    /\ UNCHANGED <<idx, attempt, elapsed, last_err, fut, running, results, delivered, calls, fail_log>>
    /\ UNCHANGED store
    /\ UNCHANGED params
    /\ UNCHANGED offline

\* fut.result(timeout=wait) times out: elapsed = int(time.time() - start_ts).
\* At least wait seconds have passed; values past timeout_secs behave alike
\* and are recorded as timeout_secs.  A TimeoutError raised by the call itself
\* is caught by the same except (line 187) at once, without the wait.
Tick ==
    /\ pc = "waiting"
    /\ elapsed < timeout_secs
    /\ fut.st \in {"pending", "timeout_error"}
    /\ LET wait == IF fut.st = "pending"
                   THEN Min(tick_interval_secs, timeout_secs - elapsed)
                   ELSE 0
       IN \E e \in (elapsed + wait)..timeout_secs : elapsed' = e
    /\ UNCHANGED <<pc, idx, attempt, last_err, fut, running, results, delivered, calls,
                   fail_log, raised, exit_status>>
    /\ UNCHANGED store
    /\ UNCHANGED params
    /\ UNCHANGED offline

\* Mutant: the break after the hook is missing.
AfterHookNoBreak(ok) ==
    /\ pc' = "for_attempt"
    /\ UNCHANGED <<last_err, fail_log>>

\* Mutant: the exception of the hook reaches the outer except Exception.
AfterHookPropagates(ok) ==
    IF ok
    THEN /\ pc' = "for_batch"
         /\ UNCHANGED <<last_err, fail_log>>
    ELSE /\ pc' = "for_attempt"
         /\ last_err' = "error"
         /\ fail_log' = LogFailure(fail_log, "error")

\* After on_batch: ok = it returned; otherwise its exception is caught by the
\* inner try (lines 200-201) and only printed.  Either way: break.
AfterHook(ok) ==
    /\ pc' = "for_batch"
    /\ UNCHANGED <<last_err, fail_log>>

\* fut.result returns out: leave the with block, results.append(out),
\* on_batch under its own try, break.
GotResult ==
    /\ pc = "waiting"
    /\ elapsed < timeout_secs
    /\ fut.st = "result"
    /\ LET out == [batch |-> fut.call[1], array |-> fut.array, n |-> fut.n]
       IN /\ results' = Append(results, out)
          /\ delivered' = fut.call
          /\ \E o \in SaveBatchOutcomes(out) :
               /\ OnBatch(out, o)
               /\ AfterHook(o.ok)
    /\ UNCHANGED <<idx, attempt, elapsed, fut, running, calls, raised, exit_status>>
    /\ UNCHANGED params
    /\ UNCHANGED offline

\* Mutant: an error of the call is not retried but raised at once.
ErrorHandlerRaises ==
    /\ last_err' = "error"
    /\ fail_log' = LogFailure(fail_log, "error")
    /\ raised' = Append(raised, [batch |-> idx, err |-> "error"])
    /\ pc' = "raised"
    /\ exit_status' = 1

\* except Exception as exc (lines 207-210): last_err = exc, continue.
ErrorHandler ==
    /\ last_err' = "error"
    /\ fail_log' = LogFailure(fail_log, "error")
    /\ pc' = "for_attempt"
    /\ UNCHANGED <<raised, exit_status>>

\* fut.result re-raises the exception of the call.
GotException ==
    /\ pc = "waiting"
    /\ elapsed < timeout_secs
    /\ fut.st = "exception"
    /\ ErrorHandler
    /\ UNCHANGED <<idx, attempt, elapsed, fut, running, results, delivered, calls>>
    /\ UNCHANGED store
    /\ UNCHANGED params
    /\ UNCHANGED offline

\* remaining <= 0: raise FuturesTimeoutError() inside the with block.
TimeoutRaise ==
    /\ pc = "waiting"
    /\ elapsed >= timeout_secs
    /\ pc' = "exit_with"
    /\ UNCHANGED <<idx, attempt, elapsed, last_err, fut, running, results, delivered, calls,
                   fail_log, raised, exit_status>>
    /\ UNCHANGED store
    /\ UNCHANGED params
    /\ UNCHANGED offline

\* Mutant: the executor is shut down without waiting for its worker.
ShutdownNoWait == TRUE

\* ThreadPoolExecutor.__exit__ is shutdown(wait=True): it joins the worker
\* thread, so it returns only once the submitted call has ended.
ShutdownDone == <<idx, attempt>> \notin running

\* Mutant: the timeout handler forgets last_err = exc.
TimeoutHandlerKeepsErr ==
    /\ last_err' = last_err
    /\ fail_log' = LogFailure(fail_log, "timeout")
    /\ pc' = "for_attempt"

\* except FuturesTimeoutError as exc (lines 203-206): last_err = exc, continue.
TimeoutHandler ==
    /\ last_err' = "timeout"
    /\ fail_log' = LogFailure(fail_log, "timeout")
    /\ pc' = "for_attempt"

\* The with block is left with the timeout pending, then the handler runs.
ExitWith ==
    /\ pc = "exit_with"
    /\ ShutdownDone
    /\ TimeoutHandler
    /\ UNCHANGED <<idx, attempt, elapsed, fut, running, results, delivered, calls, raised, exit_status>>
    /\ UNCHANGED store
    /\ UNCHANGED params
    /\ UNCHANGED offline

Controller ==
    \/ StartBatch
    \/ Return
    \/ Submit
    \/ Fatal
    \/ Tick
    \/ GotResult
    \/ GotException
    \/ TimeoutRaise
    \/ ExitWith

\* ------------------------------------------------------------ workers
\* The Future a finished call reports to: the controller holds only the
\* Future of the current attempt.
Report(c, f) == IF fut.call = c /\ fut.st = "pending" THEN f ELSE fut

\* generate_json_with_model returns a text.
CallReturns ==
    \E c \in running : \E t \in Texts(c) :
        /\ running' = running \ {c}
        /\ fut' = Report(c, Result(t))
        /\ UNCHANGED <<results, delivered>>
        /\ UNCHANGED ctl
        /\ UNCHANGED store
        /\ UNCHANGED params
        /\ UNCHANGED offline

\* generate_json_with_model raises an error that is no TimeoutError.
CallRaises ==
    \E c \in running :
        /\ running' = running \ {c}
        /\ fut' = Report(c, Exception(c))
        /\ UNCHANGED <<results, delivered>>
        /\ UNCHANGED ctl
        /\ UNCHANGED store
        /\ UNCHANGED params
        /\ UNCHANGED offline

\* generate_json_with_model raises a TimeoutError of its own.
CallRaisesTimeoutError ==
    \E c \in running :
        /\ running' = running \ {c}
        /\ fut' = Report(c, TimeoutException(c))
        /\ UNCHANGED <<results, delivered>>
        /\ UNCHANGED ctl
        /\ UNCHANGED store
        /\ UNCHANGED params
        /\ UNCHANGED offline

Worker == CallReturns \/ CallRaises \/ CallRaisesTimeoutError

Next == Controller \/ Worker

Spec == Init /\ [][Next]_vars

\* The controller thread runs whenever it is not blocked; the service owes
\* no answer, so the workers get no fairness.
FairSpec == Spec /\ WF_vars(Controller)

\* The dispatch loop is not running.
DispatchIdle ==
    /\ output_lib = "set"
    /\ max_retries = 1
    /\ total = 0
    /\ pc = "off"
    /\ idx = 0
    /\ attempt = 0
    /\ elapsed = 0
    /\ last_err = "None"
    /\ fut = NoFuture
    /\ running = {}
    /\ results = <<>>
    /\ delivered = <<0, 0>>
    /\ calls = <<>>
    /\ fail_log = NoFailures
    /\ raised = <<>>
    /\ exit_status = -1
    /\ holder = 0
    /\ written = <<>>
    /\ cb_failed = {}

\* ------------------------------------------------------------ batch_sentences
\* A string is a sequence of characters; " ", "\n" and "\t" are the whitespace
\* characters, every other token stands for one non-whitespace character.
IsSpace(ch) == ch \in {" ", "\n", "\t"}

\* str.lstrip(), str.rstrip() and str.strip() with no argument.
RECURSIVE LStrip(_)
LStrip(s) == IF s # <<>> /\ IsSpace(Head(s)) THEN LStrip(Tail(s)) ELSE s
RECURSIVE RStrip(_)
RStrip(s) ==
    IF s # <<>> /\ IsSpace(s[Len(s)]) THEN RStrip(SubSeq(s, 1, Len(s) - 1)) ELSE s
Strip(s) == RStrip(LStrip(s))

\* "".join(parts)
RECURSIVE Join(_)
Join(parts) == IF parts = <<>> THEN <<>> ELSE Head(parts) \o Join(Tail(parts))

\* The locals of batch_sentences before the loop. made is not in the code: it
\* records, for each batch, how many sentences it was made of and whether it
\* was appended by the single-sentence rule.
BatchStart == [batches |-> <<>>, buf |-> <<>>, count |-> 0, made |-> <<>>]

\* `if count == 0 and len(s) >= min_chars`
DirectBatch(count, s, min_chars) == count = 0 /\ Len(s) >= min_chars

\* `if count > min_chars`, and the variant that closes a batch on reaching the
\* threshold.
CloseBatchAtThreshold(count, min_chars) == count >= min_chars
CloseBatch(count, min_chars) == count > min_chars

\* `buf.clear()`, and the variant that forgets it.
BufKept(buf) == buf
BufCleared(buf) == <<>>

\* `buf.append(s); count += len(s)` and the threshold test after it.
Buffer(st, s, min_chars) ==
    LET buf == Append(st.buf, s)
        count == st.count + Len(s)
    IN  IF CloseBatch(count, min_chars)
        THEN [batches |-> Append(st.batches, Join(buf)),
              buf |-> BufCleared(buf),
              count |-> 0,
              made |-> Append(st.made, [n |-> Len(buf), direct |-> FALSE])]
        ELSE [st EXCEPT !.buf = buf, !.count = count]

\* `batches.append(s); continue`, and the variant without the continue.
AppendAloneFallsThrough(st, s, min_chars) ==
    Buffer([st EXCEPT !.batches = Append(@, s),
                      !.made = Append(@, [n |-> 1, direct |-> TRUE])],
           s, min_chars)
AppendAlone(st, s, min_chars) ==
    [st EXCEPT !.batches = Append(@, s),
               !.made = Append(@, [n |-> 1, direct |-> TRUE])]

\* One iteration of `for s in sentences`.
BatchStep(st, raw, min_chars) ==
    LET s == Strip(raw)
    IN  IF s = <<>> THEN st
        ELSE IF DirectBatch(st.count, s, min_chars) THEN AppendAlone(st, s, min_chars)
        ELSE Buffer(st, s, min_chars)

\* The locals of batch_sentences when the loop has ended.
RECURSIVE BatchLoop(_, _, _)
BatchLoop(st, sentences, min_chars) ==
    IF sentences = <<>> THEN st
    ELSE BatchLoop(BatchStep(st, Head(sentences), min_chars), Tail(sentences), min_chars)

\* What batch_sentences returns.
batch_sentences(sentences, min_chars) == BatchLoop(BatchStart, sentences, min_chars).batches

\* The sentences given to batch_sentences: at most MaxSentenceLen characters
\* out of whitespace and two letters each, at most MaxSentences of them, and
\* the two sentences of six characters each of the documented example.
Chars == {" ", "a", "b"}
SentenceInputs == UNION {[1..n -> Chars] : n \in 0..MaxSentenceLen}
ExampleSentences ==
    << <<"inu", "ga", "ho", "e", "ta", "maru">>,
       <<"neko", "ga", "na", "i", "ta", "maru">> >>

BatchInit ==
    /\ DispatchIdle
    /\ ParserIdle
    /\ NotesIdle
    /\ b_pc = "ready"
    /\ \/ /\ b_sentences \in UNION {[1..n -> SentenceInputs] : n \in 0..MaxSentences}
          /\ b_min_chars \in (-1)..MaxMinChars
       \/ /\ b_sentences = ExampleSentences
          /\ b_min_chars = 5
    /\ b_out = BatchStart

\* The call runs to its return.
BatchSentences ==
    /\ b_pc = "ready"
    /\ b_pc' = "done"
    /\ b_out' = BatchLoop(BatchStart, b_sentences, b_min_chars)
    /\ UNCHANGED <<b_sentences, b_min_chars>>

\* batch_sentences called on its own, on every input within the bounds.
BatchNext == BatchSentences /\ UNCHANGED <<dispatch, parser, notes>>
BatchSpec == BatchInit /\ [][BatchNext]_vars

\* ------------------------------------------------------------ _try_parse_json_array
\* A response text is a sequence of these: "fence" for the three backticks
\* of a code fence, a line break, the JSON punctuation, "{}" for a JSON object and a letter
\* that is no JSON ("j", as in a fence's language tag).
TextChars == {"fence", "\n", "[", "]", ",", "{}", "j"}
TextInputs == UNION {[1..n -> TextChars] : n \in 0..MaxTextLen}

\* str.splitlines(): the lines without their breaks, no empty last line.
RECURSIVE SplitLines(_)
SplitLines(s) ==
    IF s = <<>> THEN <<>>
    ELSE LET brk == {i \in 1..Len(s) : s[i] = "\n"}
         IN  IF brk = {} THEN <<s>>
             ELSE LET k == CHOOSE i \in brk : \A j \in brk : i <= j
                  IN  <<SubSeq(s, 1, k - 1)>> \o SplitLines(SubSeq(s, k + 1, Len(s)))

\* "\n".join(lines)
RECURSIVE JoinLines(_)
JoinLines(lines) ==
    IF lines = <<>> THEN <<>>
    ELSE IF Len(lines) = 1 THEN lines[1]
    ELSE lines[1] \o <<"\n">> \o JoinLines(Tail(lines))

\* lines[1:-1]
AllButFirstAndLast(lines) == SubSeq(lines, 2, Len(lines) - 1)

\* _strip_code_fences
strip_code_fences(text) ==
    LET t == Strip(text)
    IN  IF t # <<>> /\ t[1] = "fence" /\ t[Len(t)] = "fence"
        THEN JoinLines(AllButFirstAndLast(SplitLines(t)))
        ELSE t

\* json.loads: whitespace may stand between any two tokens; a value is "{}" or
\* an array of values. ParseValue(s, i) is the place after the value that
\* starts at s[i], 0 when there is none.
NoSpace(t) == SelectSeq(t, LAMBDA ch : ~IsSpace(ch))
RECURSIVE ParseValue(_, _)
RECURSIVE ParseElements(_, _)
ParseValue(s, i) ==
    IF i > Len(s) THEN 0
    ELSE IF s[i] = "{}" THEN i + 1
    ELSE IF s[i] = "[" THEN
        IF i + 1 <= Len(s) /\ s[i + 1] = "]" THEN i + 2 ELSE ParseElements(s, i + 1)
    ELSE 0
ParseElements(s, i) ==
    LET n == ParseValue(s, i)
    IN  IF n = 0 \/ n > Len(s) THEN 0
        ELSE IF s[n] = "]" THEN n + 1
        ELSE IF s[n] = "," THEN ParseElements(s, n + 1)
        ELSE 0

\* What _try_parse_json_array returns: None, or a list, written down as the
\* array's tokens without whitespace.
None == [st |-> "None", val |-> <<>>]
List(v) == [st |-> "list", val |-> v]

\* `obj = json.loads(t); if isinstance(obj, list)`: the list, or None when
\* json.loads raises or gives something that is no list.
LoadsList(t) ==
    LET s == NoSpace(t)
    IN  IF s # <<>> /\ s[1] = "[" /\ ParseValue(s, 1) = Len(s) + 1
        THEN List(s)
        ELSE None

\* t.find("["), t.rfind("]"), with 0 where Python has -1.
Find(t, ch) ==
    LET at == {i \in 1..Len(t) : t[i] = ch}
    IN  IF at = {} THEN 0 ELSE CHOOSE i \in at : \A j \in at : i <= j
RFind(t, ch) ==
    LET at == {i \in 1..Len(t) : t[i] = ch}
    IN  IF at = {} THEN 0 ELSE CHOOSE i \in at : \A j \in at : i >= j

\* _try_parse_json_array
try_parse_json_array(text) ==
    LET t == strip_code_fences(text)
        start == Find(t, "[")
        end == RFind(t, "]")
    IN  IF LoadsList(t) # None THEN LoadsList(t)
        ELSE IF start # 0 /\ end # 0 /\ end > start
             THEN LoadsList(SubSeq(t, start, end))
        ELSE None

\* The ways a text is wrapped in a leading and a trailing code fence: with or
\* without a language tag after the opening fence, the opening fence on its
\* own line or on the first line of the text, the closing fence on its own
\* line or on the last line of the text.
NoFence == [fence |-> FALSE, tag |-> FALSE, open_alone |-> FALSE, close_alone |-> FALSE]
Layouts ==
    {l \in [fence : {TRUE}, tag : BOOLEAN, open_alone : BOOLEAN, close_alone : BOOLEAN] :
        l.tag => l.open_alone}
Fenced(l, text) ==
    IF ~l.fence THEN text ELSE
    <<"fence">> \o (IF l.tag THEN <<"j">> ELSE <<>>)
              \o (IF l.open_alone THEN <<"\n">> ELSE <<>>)
              \o text
              \o (IF l.close_alone THEN <<"\n">> ELSE <<>>)
              \o <<"fence">>

\* The texts that are a JSON array.
ArrayTexts == {t \in TextInputs : LoadsList(t) # None}

ParseInit ==
    /\ DispatchIdle
    /\ BatcherIdle
    /\ NotesIdle
    /\ \/ p_text \in TextInputs /\ p_layout = NoFence
       \/ p_text \in ArrayTexts /\ p_layout \in Layouts
    /\ p_plain = [st |-> "ready", val |-> <<>>]
    /\ p_fenced = [st |-> "ready", val |-> <<>>]

\* _try_parse_json_array(p_text)
ParsePlain ==
    /\ p_plain.st = "ready"
    /\ p_plain' = try_parse_json_array(p_text)
    /\ UNCHANGED <<p_text, p_layout, p_fenced>>

\* _try_parse_json_array on p_text inside its fence
ParseFenced ==
    /\ p_fenced.st = "ready"
    /\ p_fenced' = try_parse_json_array(Fenced(p_layout, p_text))
    /\ UNCHANGED <<p_text, p_layout, p_plain>>

ParseNext == (ParsePlain \/ ParseFenced) /\ UNCHANGED <<dispatch, batcher, notes>>
ParseSpec == ParseInit /\ [][ParseNext]_vars

\* ------------------------------------------------------------ note documents
\* A directory of documents: a function from file stems (the file name
\* without ".md") to file contents; names and contents are strings as above.
NoDocs == <<>>
Put(docs, stem, content) ==
    [x \in DOMAIN docs \cup {stem} |-> IF x = stem THEN content ELSE docs[x]]

\* f.write("\n".join(lines).rstrip() + "\n")
FileText(lines) == RStrip(JoinLines(lines)) \o <<"\n">>

\* str.rstrip(".")
RECURSIVE RStripDots(_)
RStripDots(s) ==
    IF s # <<>> /\ s[Len(s)] = "." THEN RStripDots(SubSeq(s, 1, Len(s) - 1)) ELSE s

\* _ILLEGAL_CHARS, as far as the characters of the inputs go.
IllegalChars == {"/", ":", "?", "|"}

\* _sanitize_filename
sanitize_filename(name) ==
    LET trimmed == RStripDots(Strip(name))
        clean == [i \in 1..Len(trimmed) |->
                    IF trimmed[i] \in IllegalChars THEN " " ELSE trimmed[i]]
    IN  IF Len(clean) > 180 THEN SubSeq(clean, 1, 180) ELSE clean

\* _first_n_chars
first_n_chars(str, n) ==
    LET flat == [i \in 1..Len(str) |-> IF str[i] = "\n" THEN " " ELSE str[i]]
        t == Strip(flat)
    IN  IF Len(t) > n THEN SubSeq(t, 1, n) ELSE t

\* The three lines a sentence document has for each piece.
RECURSIVE PieceLines(_)
PieceLines(pieces) ==
    IF pieces = <<>> THEN <<>>
    ELSE LET piece == Head(pieces)
         IN  << <<"-", " ", "[[">> \o Strip(piece.piece) \o <<"]]", " ", "-", " ">>
                    \o Strip(piece.reading),
                <<"\t", "-", " ">> \o Strip(piece.meaning),
                <<" ", " ", " ", " ", "-", " ">> \o Strip(piece.function) >>
             \o PieceLines(Tail(pieces))

\* The stem of the sentence document with the given index.
SentenceStem(index, obj) ==
    sanitize_filename(<<"S", ToString(index), " ", "-", " ">>
                        \o first_n_chars(Strip(obj.sentence), 10))

\* _write_sentence_file: the sentence directory afterwards.
write_sentence_file(sentence_dir, index, obj) ==
    Put(sentence_dir, SentenceStem(index, obj),
        FileText(<<Strip(obj.sentence), <<"---">>, Strip(obj.translation), <<"---">>>>
                 \o PieceLines(obj.pieces)))

\* The backlink a piece document has to a sentence, and the line under it.
Backlink(stem, text) ==
    <<" ", " ", " ", " ", "-", " ", "[[">> \o stem \o <<"|">> \o text \o <<"]]">>
FunctionLine(function) ==
    <<" ", " ", " ", " ", " ", " ", " ", " ", "-", " ">> \o function
Heading(meaning) == <<"-", " ">> \o meaning

\* line.startswith("- ")
StartsTopLevel(line) == Len(line) >= 2 /\ line[1] = "-" /\ line[2] = " "

\* `if line.strip() == target_heading`
IsTargetHeading(line, meaning) == Strip(line) = Heading(meaning)

\* The place found for a new backlink in lines: the first line that is the
\* target heading, then the next line that starts a top-level item (the end
\* of the lines if there is none); 0 when no line is the target heading.
InsertAt(lines, meaning) ==
    LET hits == {i \in 1..Len(lines) : IsTargetHeading(lines[i], meaning)}
    IN  IF hits = {} THEN 0
        ELSE LET found == CHOOSE i \in hits : \A k \in hits : i <= k
                 tops == {j \in (found + 1)..Len(lines) : StartsTopLevel(lines[j])}
             IN  IF tops = {} THEN Len(lines) + 1
                 ELSE CHOOSE j \in tops : \A k \in tops : j <= k

\* `lines[insert_at:insert_at] = addition`
Splice(lines, at, addition) ==
    SubSeq(lines, 1, at - 1) \o addition \o SubSeq(lines, at, Len(lines))

\* `with open(file_path, "a")`: the file after the write, and the variant
\* that opens it with "w".
Rewritten(content, text) == text
Appended(content, text) == content \o text

\* _append_piece_file: the piece directory afterwards.
append_piece_file(piece_dir, piece_obj, sentence_file_stem, sentence_text) ==
    LET piece_name == Strip(piece_obj.piece)
        piece_type == Strip(piece_obj.type)
        meaning == Strip(piece_obj.meaning)
        function == Strip(piece_obj.function)
        file_stem == sanitize_filename(piece_name)
        link == Backlink(sentence_file_stem, sentence_text)
    IN  IF piece_name = <<>> THEN piece_dir
        ELSE IF file_stem \notin DOMAIN piece_dir THEN
            Put(piece_dir, file_stem,
                FileText(<< <<"---">>, <<"type: ">> \o piece_type, <<"---">>,
                            Heading(meaning), link, FunctionLine(function) >>))
        ELSE LET lines == SplitLines(piece_dir[file_stem])
                 insert_at == InsertAt(lines, meaning)
             IN  IF insert_at # 0
                 THEN Put(piece_dir, file_stem,
                          FileText(Splice(lines, insert_at, <<link, FunctionLine(function)>>)))
                 ELSE Put(piece_dir, file_stem,
                          Appended(piece_dir[file_stem],
                                   FileText(<< <<>>, Heading(meaning), link,
                                               FunctionLine(function) >>)))

\* ------------------------------------------------------------ save_batch, save_notes
\* The store and the running sentence index inside save_batch or save_notes.
EmptyStore == [sentence_dir |-> NoDocs, piece_dir |-> NoDocs, index |-> 0, raised |-> FALSE]

\* `for piece in obj.get("pieces") or []: _append_piece_file(...)`. fail
\* counts down to the write that raises (0: none does); a piece without a
\* name returns before it opens a file. An exception ends the loop.
RECURSIVE MergePieces(_, _, _, _, _)
MergePieces(st, pieces, stem, text, fail) ==
    IF pieces = <<>> THEN [st |-> st, fail |-> fail]
    ELSE IF Strip(Head(pieces).piece) = <<>>
         THEN MergePieces(st, Tail(pieces), stem, text, fail)
    ELSE IF fail = 1 THEN [st |-> [st EXCEPT !.raised = TRUE], fail |-> 0]
    ELSE MergePieces([st EXCEPT !.piece_dir = append_piece_file(@, Head(pieces), stem, text)],
                     Tail(pieces), stem, text, IF fail = 0 THEN 0 ELSE fail - 1)

\* `for obj in arr`: the sentence document, its pieces, then the index.
RECURSIVE SaveRecords(_, _, _)
SaveRecords(st, arr, fail) ==
    IF arr = <<>> THEN st
    ELSE LET obj == Head(arr)
             written_st == [st EXCEPT !.sentence_dir = write_sentence_file(@, st.index, obj)]
             merged == MergePieces(written_st, obj.pieces, SentenceStem(st.index, obj),
                                   Strip(obj.sentence), fail)
         IN  IF merged.st.raised THEN merged.st
             ELSE SaveRecords([merged.st EXCEPT !.index = @ + 1], Tail(arr), merged.fail)

\* `return current_sentence_index` of save_batch on an unparsable response,
\* and a variant that counts the response as a record.
ReturnAdvanced(st) == [st EXCEPT !.index = @ + 1]
ReturnUnchanged(st) == st

\* `continue` of save_notes on an unparsable response.
Continue(st) == st

\* save_batch on the store st.sentence_dir, st.piece_dir with
\* current_sentence_index = st.index: the store and index afterwards.
save_batch(st, response, fail) ==
    IF output_lib # "set" THEN [st EXCEPT !.raised = TRUE]
    ELSE IF response.arr = "None" THEN ReturnUnchanged(st)
    ELSE SaveRecords(st, response.records, fail)

\* save_notes: the loop over results, with sentence_index in st.index.
RECURSIVE SaveNotesLoop(_, _)
SaveNotesLoop(st, results_list) ==
    IF results_list = <<>> \/ st.raised THEN st
    ELSE LET response == Head(results_list)
         IN  SaveNotesLoop(IF response.arr = "None" THEN Continue(st)
                           ELSE SaveRecords(st, response.records, 0),
                           Tail(results_list))
save_notes(results_list) ==
    IF output_lib # "set" THEN [EmptyStore EXCEPT !.raised = TRUE]
    ELSE SaveNotesLoop(EmptyStore, results_list)

\* The pieces, records and responses of the runs explored.
PieceInputs ==
    {piece \in [piece : {<<"p">>, <<"q", ".">>, <<>>}, type : {<<"T">>}, reading : {<<"r">>},
                meaning : {<<>>, <<"a">>, <<"b">>}, function : {<<>>, <<"b">>}] :
        /\ piece.piece # <<"p">> => piece.meaning = <<"a">>
        /\ (piece.function = <<"b">>) = (piece.meaning = <<"a">> /\ piece.piece = <<"p">>)}
RecordInputs(k) ==
    [sentence : {<<"x", "?">>}, translation : {<<"t">>}, pieces : [1..k -> PieceInputs]]
\* The arrays of n records that have, with their pieces, at most k items.
RECURSIVE ArrayInputs(_, _)
ArrayInputs(n, k) ==
    IF n = 0 THEN {<<>>}
    ELSE UNION {{<<obj>> \o rest : obj \in RecordInputs(j),
                                   rest \in ArrayInputs(n - 1, k - 1 - j)} :
                j \in 0..(k - n)}
Unparsable == [arr |-> "None", records |-> <<>>]
ResponseInputs(k) ==
    {Unparsable} \cup
    {[arr |-> "list", records |-> arr] : arr \in UNION {ArrayInputs(n, k) : n \in 0..MaxRecords}}

\* The pieces of an array, and those among them that have a name.
RECURSIVE AllPieces(_)
AllPieces(arr) == IF arr = <<>> THEN <<>> ELSE Head(arr).pieces \o AllPieces(Tail(arr))
Named(pieces) == SelectSeq(pieces, LAMBDA piece : Strip(piece.piece) # <<>>)
\* The records and pieces of all the responses so far.
RECURSIVE ItemsOf(_)
ItemsOf(responses) ==
    IF responses = <<>> THEN 0
    ELSE Len(Head(responses).records) + Len(AllPieces(Head(responses).records))
            + ItemsOf(Tail(responses))

\* `sentence_index_holder["idx"] = save_batch(...)`: the holder after a call
\* that gave out, and the variant that never assigns.
HolderKept(held, out) == held
HolderAfter(held, out) == IF out.raised THEN held ELSE out.index

NotesInit ==
    /\ DispatchIdle
    /\ BatcherIdle
    /\ ParserIdle
    /\ n_sentence = NoDocs
    /\ n_piece = NoDocs
    /\ n_index = 0
    /\ n_responses = <<>>
    /\ n_fail = 0
    /\ n_raised = FALSE

\* main's on_batch hook for one more batch: save_batch on the response, the
\* holder set to what it returns; an exception leaves the holder as it was
\* and is swallowed by analyze_batches. At most one call of a run meets a
\* piece document it cannot write.
SaveBatch ==
    /\ Len(n_responses) < MaxBatches
    /\ \E response \in ResponseInputs(MaxItems - ItemsOf(n_responses)) :
       \E fail \in 0..(IF n_raised THEN 0 ELSE Len(Named(AllPieces(response.records)))) :
            \E out \in {save_batch([sentence_dir |-> n_sentence, piece_dir |-> n_piece,
                                   index |-> n_index, raised |-> FALSE], response, fail)} :
                /\ n_sentence' = out.sentence_dir
                /\ n_piece' = out.piece_dir
                /\ n_index' = HolderAfter(n_index, out)
                /\ n_responses' = Append(n_responses, response)
                /\ n_fail' = fail
                /\ n_raised' = (n_raised \/ out.raised)

NotesNext == SaveBatch /\ UNCHANGED <<dispatch, batcher, parser>>
NotesSpec == NotesInit /\ [][NotesNext]_vars

\* ------------------------------------------------------------ outcomes
\* The entries of results that belong to batch b.
ResultsOf(b) == {i \in 1..Len(results) : results[i].batch = b}
\* The RuntimeErrors raised for batch b.
FatalsOf(b) == {i \in 1..Len(raised) : raised[i].batch = b}
Succeeded(b) == ResultsOf(b) # {}
ExhaustedFatal(b) == FatalsOf(b) # {}
Outcomes(b) == Cardinality(ResultsOf(b)) + Cardinality(FatalsOf(b))
\* The controller has left batch b.
Left(b) == b < idx \/ (b = idx /\ pc \in {"for_batch", "returned", "raised"})
RunOver == pc \in {"returned", "raised"}

\* ------------------------------------------------------------ claims

\* C1: a batch never has more than one terminal outcome (a result appended or
\* a RuntimeError raised, never both, never twice), has exactly one once the
\* controller has left it and none before it is started; the attempt numbers
\* submitted for the current batch are 1, 2, 3, ... in steps of one and never
\* exceed max_retries.
C1_OneOutcomeAttemptsInOrder ==
    /\ \A b \in 1..(MaxBatches + 1) :
        /\ Outcomes(b) <= 1
        /\ (b >= 1 /\ Left(b)) => Outcomes(b) = 1
        /\ b > idx => Outcomes(b) = 0
    /\ calls = [i \in 1..Len(calls) |-> i]
    /\ Len(calls) = attempt
    /\ attempt <= max_retries

\* C1 witness: batch 1 succeeded on a retry and batch 2 ended fatal.
C1_Witness ==
    /\ pc = "raised"
    /\ idx = 2
    /\ Succeeded(1)
    /\ ExhaustedFatal(2)
    /\ Len(calls) >= 2

\* C2: every call in flight belongs to the current batch, results are appended
\* in batch order, and a batch has calls only after every earlier batch has
\* its result: calls of two batches are never in flight together.
C2_OneBatchInFlight ==
    /\ \A c \in running : c[1] = idx
    /\ \A i \in 1..Len(results) : results[i].batch = i
    /\ (calls # <<>>) => \A b \in 1..(idx - 1) : Succeeded(b)

\* C2 witness: the second attempt of batch 2 is in flight after its first
\* attempt timed out.
C2_Witness ==
    /\ idx = 2
    /\ <<2, 2>> \in running
    /\ fail_log.timeout = 1

\* C3 (as claimed): a started batch always reaches Succeeded or
\* ExhaustedFatal, whatever the service does, because a timeout only gives up
\* waiting.
C3_BatchAlwaysEnds ==
    (pc = "for_attempt") ~> (pc \in {"for_batch", "returned", "raised"})

\* C4 (as claimed): once attempt k has timed out and attempts remain, the
\* controller goes on to attempt k+1 whether or not call k has returned.
C4_RetryDoesNotWait ==
    (pc = "exit_with" /\ attempt < max_retries) => ENABLED ExitWith

\* C5: when the current batch has its result, the controller has left the
\* attempt loop, the text delivered is that of the call of the last attempt,
\* exactly one call per attempt was submitted, and the attempt number is the
\* number of failed attempts plus one (k - 1 timeouts give success at k).
C5_SuccessAtAttemptK ==
    (idx >= 1 /\ Succeeded(idx)) =>
        /\ pc \in {"for_batch", "returned"}
        /\ delivered = <<idx, attempt>>
        /\ Len(calls) = attempt
        /\ calls[Len(calls)] = attempt
        /\ attempt = Failures(fail_log) + 1
        /\ Cardinality(ResultsOf(idx)) = 1

\* C5 witness: max_retries = 5, attempts 1 and 2 timed out, attempt 3 succeeded
\* with 3 calls.
C5_Witness ==
    /\ max_retries = 5
    /\ idx >= 1
    /\ Succeeded(idx)
    /\ fail_log = [timeout |-> 2, error |-> 0, last |-> "timeout"]
    /\ attempt = 3
    /\ calls = <<1, 2, 3>>
    /\ delivered = <<idx, 3>>

\* C6: a RuntimeError is raised only after exactly max_retries attempts that
\* all failed and carries the error of the last of them; max_retries failures
\* are followed by nothing but the RuntimeError.
C6_FatalAfterMaxRetries ==
    /\ \A i \in 1..Len(raised) :
        /\ raised[i].batch = idx
        /\ attempt = max_retries
        /\ Len(calls) = max_retries
        /\ Failures(fail_log) = max_retries
        /\ raised[i].err = fail_log.last
        /\ ~Succeeded(idx)
    /\ Failures(fail_log) <= max_retries
    /\ Failures(fail_log) = max_retries => pc \in {"for_attempt", "raised"}
    /\ (pc = "raised") => Len(raised) = 1

\* C6 witness: max_retries = 2, both attempts timed out, fatal after 2 calls.
C6_Witness ==
    /\ max_retries = 2
    /\ pc = "raised"
    /\ fail_log = [timeout |-> 2, error |-> 0, last |-> "timeout"]
    /\ calls = <<1, 2>>
    /\ raised = <<[batch |-> idx, err |-> "timeout"]>>

\* C7: once a RuntimeError was raised for a batch, the controller stays at that
\* batch with exit status 1: no call of a later batch is in flight, results
\* holds only the earlier batches and no document of that or a later batch was
\* written.
C7_FatalStopsRun ==
    Len(raised) >= 1 =>
        /\ pc = "raised"
        /\ exit_status = 1
        /\ idx = raised[1].batch
        /\ \A c \in running : c[1] <= raised[1].batch
        /\ Len(results) = raised[1].batch - 1
        /\ \A i \in 1..Len(written) : written[i].batch < raised[1].batch
        /\ cb_failed \subseteq 1..(raised[1].batch - 1)

\* C7 witness: batch 1 of 2 ended fatal.
C7_Witness ==
    /\ total = 2
    /\ Len(raised) = 1
    /\ raised[1].batch = 1
    /\ exit_status = 1

\* C8: the number of attempts, the number of calls and the outcome depend on
\* the failures of a batch only through their number, timeouts and errors
\* counted alike: each failure used one attempt and one call, the batch is
\* fatal exactly at max_retries failures and succeeds only below that.
C8_FailureKindsCountAlike ==
    LET open == IF pc \in {"waiting", "exit_with"} \/ Succeeded(idx) THEN 1 ELSE 0
    IN /\ attempt = fail_log.timeout + fail_log.error + open
       /\ Len(calls) = fail_log.timeout + fail_log.error + open
       /\ (pc = "raised") => fail_log.timeout + fail_log.error = max_retries
       /\ (idx >= 1 /\ Succeeded(idx)) => fail_log.timeout + fail_log.error < max_retries
       /\ (pc = "for_attempt" /\ fail_log.timeout + fail_log.error < max_retries)
            => ENABLED Submit

\* C8 witness: a batch ended fatal after a timeout followed by an error.
C8_Witness ==
    /\ pc = "raised"
    /\ fail_log.timeout >= 1
    /\ fail_log.error >= 1
    /\ fail_log.last = "error"

\* C9: a batch whose hook raised has its one result in results and no
\* RuntimeError, the failure used no attempt and no further call, and the run
\* does not end at that batch while batches remain.
C9_HookFailureSwallowed ==
    \A b \in cb_failed :
        /\ Cardinality(ResultsOf(b)) = 1
        /\ ~ExhaustedFatal(b)
        /\ b <= idx
        /\ (b = idx) =>
             /\ pc \in {"for_batch", "returned"}
             /\ attempt = Failures(fail_log) + 1
             /\ Len(calls) = attempt
        /\ (RunOver /\ b < total) => idx > b /\ (pc = "raised" => Len(calls) >= 1)

\* C9 witness: the hook of batch 1 raised after writing a document, and batch
\* 2 was dispatched and succeeded.
C9_Witness ==
    /\ 1 \in cb_failed
    /\ pc = "returned"
    /\ idx = 2
    /\ Len(written) >= 1
    /\ written[1].batch = 1
    /\ Succeeded(2)

\* C10 (as claimed): the sentence documents written during a run carry the
\* indices 0, 1, 2, ... in write order, none twice, none going backward.
C10_IndicesInWriteOrder ==
    \A i \in 1..Len(written) : written[i].index = i - 1

\* C16: a run whose configuration lacks the output-store root path, and which
\* has batches to send, sends none of them to the analysis service and does
\* not end with status 0.
C16_MissingSettingAbortsBeforeDispatch ==
    (output_lib \in {"absent", "empty"} /\ total > 0) =>
        /\ calls = <<>>
        /\ running = {}
        /\ exit_status # 0

\* What batch_sentences was given, trimmed, blanks left out, in order.
KeptSentences == SelectSeq([i \in 1..Len(b_sentences) |-> Strip(b_sentences[i])],
                           LAMBDA s : s # <<>>)

\* C17: every batch batch_sentences returns has at least min_chars
\* characters, and a batch made of two or more sentences, or appended from
\* the buffer, has strictly more than min_chars.
C17_BatchesReachThreshold ==
    b_pc = "done" =>
        \A i \in 1..Len(b_out.batches) :
            /\ Len(b_out.batches[i]) >= b_min_chars
            /\ (b_out.made[i].n >= 2 \/ ~b_out.made[i].direct) =>
                   Len(b_out.batches[i]) > b_min_chars

\* A batch of two sentences closed from the buffer, one character over.
C17_Witness ==
    /\ b_pc = "done"
    /\ \E i \in 1..Len(b_out.batches) :
        /\ b_out.made[i].n >= 2
        /\ ~b_out.made[i].direct
        /\ Len(b_out.batches[i]) = b_min_chars + 1

\* C18 (as amended): the batches, concatenated, followed by the discarded
\* remainder, are the trimmed non-blank sentences concatenated in input
\* order, so the batches are a prefix of them; a discarded remainder has at
\* most min_chars characters.
C18_PrefixAndRemainderAtMost ==
    b_pc = "done" =>
        /\ Join(b_out.batches) \o Join(b_out.buf) = Join(KeptSentences)
        /\ b_out.count = Len(Join(b_out.buf))
        /\ b_out.buf # <<>> => b_out.count <= b_min_chars

\* Two sentences are discarded whose characters add up to min_chars exactly.
C18_Witness ==
    /\ b_pc = "done"
    /\ Len(b_out.buf) = 2
    /\ b_out.count = b_min_chars

\* C18 (as claimed): a discarded remainder has strictly fewer than min_chars
\* characters.
C18_RemainderBelow ==
    (b_pc = "done" /\ b_out.buf # <<>>) => b_out.count < b_min_chars

\* C19 (as amended): the two six-character sentences of the example, with
\* min_chars = 5, come back as two batches, each sentence on its own.
C19_ExampleTwoBatches ==
    (b_pc = "done" /\ b_sentences = ExampleSentences /\ b_min_chars = 5) =>
        b_out.batches = ExampleSentences

\* batch_sentences has returned on the example.
C19_Witness ==
    /\ b_pc = "done"
    /\ b_sentences = ExampleSentences
    /\ b_min_chars = 5
    /\ Len(b_out.batches) = 2

\* C19 (as claimed): the example comes back as one batch, the two sentences
\* concatenated.
C19_ExampleOneBatch ==
    (b_pc = "done" /\ b_sentences = ExampleSentences /\ b_min_chars = 5) =>
        b_out.batches = <<ExampleSentences[1] \o ExampleSentences[2]>>

\* C20: a valid JSON array wrapped in a leading and a trailing code fence
\* parses to the same list as the array alone, whatever the fence's layout.
C20_FencedParsesAsUnfenced ==
    (p_layout.fence /\ p_plain.st = "list" /\ p_fenced.st # "ready") =>
        p_fenced = p_plain

\* The response of the save_batch call a step makes.
Called == n_responses'[Len(n_responses')]
IsCall == n_responses' # n_responses

\* C11: a call of save_batch on an unparsable response writes no sentence
\* document, changes no piece document, returns the index it was given and
\* does not raise, and save_notes gives the same store with or without that
\* response; a call on an array writes its first record under the index held
\* before it, which after a skipped batch is the index that batch would have
\* started at.
C11_UnparsableSkipped ==
    [][IsCall =>
        /\ Called = Unparsable =>
            /\ n_sentence' = n_sentence
            /\ n_piece' = n_piece
            /\ n_index' = n_index
            /\ n_raised' = n_raised
            /\ save_notes(n_responses') = save_notes(n_responses)
        /\ (Called.arr = "list" /\ Called.records # <<>>) =>
            SentenceStem(n_index, Called.records[1]) \in DOMAIN n_sentence']_vars

\* A record was saved, then a response was skipped, and the index stayed 1.
C11_Witness ==
    /\ Len(n_responses) = 2
    /\ n_responses[1].arr = "list"
    /\ Len(n_responses[1].records) = 1
    /\ n_responses[2] = Unparsable
    /\ ~n_raised
    /\ n_index = 1
    /\ Cardinality(DOMAIN n_sentence) = 1

\* C12: a call of save_batch in which a piece document cannot be written
\* does not raise; it still writes the sentence document of every record of
\* the response and advances the index by one per record.
C12_PieceFailureContained ==
    [][(IsCall /\ n_fail' # 0) =>
        /\ n_raised' = n_raised
        /\ n_index' = n_index + Len(Called.records)
        /\ \A r \in 1..Len(Called.records) :
            SentenceStem(n_index + r - 1, Called.records[r]) \in DOMAIN n_sentence']_vars

\* The backlinks each named piece of an array asks for, in arrival order,
\* the first record having the given index.
RECURSIVE LinksOf(_, _)
LinksOf(arr, index) ==
    IF arr = <<>> THEN <<>>
    ELSE LET obj == Head(arr)
             named == Named(obj.pieces)
         IN  [i \in 1..Len(named) |->
                [index |-> index,
                 file |-> sanitize_filename(Strip(named[i].piece)),
                 meaning |-> Strip(named[i].meaning),
                 link |-> Backlink(SentenceStem(index, obj), Strip(obj.sentence))]]
             \o LinksOf(Tail(arr), index + 1)
\* The same for a list of responses.
RECURSIVE AllLinks(_, _)
AllLinks(responses, index) ==
    IF responses = <<>> THEN <<>>
    ELSE LinksOf(Head(responses).records, index)
            \o AllLinks(Tail(responses), index + Len(Head(responses).records))

\* The lines of a piece document that are backlinks.
IsBacklink(line) == Len(line) >= 7 /\ SubSeq(line, 1, 7) = <<" ", " ", " ", " ", "-", " ", "[[">>
\* The lines of a piece document from its i-th line to the line before the
\* next top-level item.
GroupAt(lines, i) ==
    LET tops == {j \in (i + 1)..Len(lines) : StartsTopLevel(lines[j])}
        stop == IF tops = {} THEN Len(lines) + 1 ELSE CHOOSE j \in tops : \A k \in tops : j <= k
    IN  SubSeq(lines, i, stop - 1)

\* C13: when the run has merged exactly two pieces, from two records, both
\* with the same name and the same meaning, the piece document has exactly
\* one group headed by that meaning, and the group holds the two backlinks,
\* each to its record's sentence document, in arrival order.
C13_OneGroupTwoBacklinks ==
    LET links == AllLinks(n_responses, 0)
    IN  (/\ ~n_raised
         /\ Len(links) = 2
         /\ links[1].index # links[2].index
         /\ links[1].file = links[2].file
         /\ links[1].meaning = links[2].meaning) =>
            LET lines == SplitLines(n_piece[links[1].file])
                heads == {i \in 1..Len(lines) : lines[i] = Heading(links[1].meaning)}
            IN  /\ Cardinality(heads) = 1
                /\ \A i \in heads :
                    SelectSeq(GroupAt(lines, i), IsBacklink) = <<links[1].link, links[2].link>>

\* old with lines put in at one place.
AddedAtOnePlace(old, new) ==
    \E k \in 0..Len(old) :
        /\ Len(new) >= Len(old)
        /\ SubSeq(new, 1, k) = SubSeq(old, 1, k)
        /\ SubSeq(new, Len(new) - (Len(old) - k) + 1, Len(new)) = SubSeq(old, k + 1, Len(old))
\* old with lines put in, anywhere.
RECURSIVE IsSubSeq(_, _)
IsSubSeq(old, new) ==
    IF old = <<>> THEN TRUE
    ELSE IF new = <<>> THEN FALSE
    ELSE IF Head(old) = Head(new) THEN IsSubSeq(Tail(old), Tail(new))
    ELSE IsSubSeq(old, Tail(new))

\* What a call that merged the given number of pieces may do to the lines
\* of a piece document.
OnlyAdded(old, new, merged) ==
    IF merged = 1 THEN AddedAtOnePlace(old, new) ELSE IsSubSeq(old, new)

\* C14: a call of save_batch removes no piece document and only adds lines
\* to one: the lines a document had are all still there, in their order and
\* unchanged; when the call merges a single piece, the new lines stand at
\* one place of one document and every other document is as it was.
C14_MergeOnlyAdds ==
    [][IsCall =>
        \A stem \in DOMAIN n_piece :
            /\ stem \in DOMAIN n_piece'
            /\ \/ n_piece'[stem] = n_piece[stem]
               \/ /\ OnlyAdded(SplitLines(n_piece[stem]), SplitLines(n_piece'[stem]),
                               Len(Named(AllPieces(Called.records))))
                  /\ Len(Named(AllPieces(Called.records))) = 1 =>
                        stem = sanitize_filename(Strip(Named(AllPieces(Called.records))[1].piece))]_vars

\* A piece document holds two backlinks: the second was merged into it.
C14_Witness ==
    \E stem \in DOMAIN n_piece :
        Len(SelectSeq(SplitLines(n_piece[stem]), IsBacklink)) = 2

\* C15: as long as no call has raised, the documents written by save_batch
\* called once per response, the index handed on from call to call, are the
\* documents one save_notes call writes for the same responses, unparsable
\* ones included.
C15_StreamingEqualsBulk ==
    ~n_raised =>
        /\ n_sentence = save_notes(n_responses).sentence_dir
        /\ n_piece = save_notes(n_responses).piece_dir

\* An unparsable response, then a response whose piece was merged.
C15_Witness ==
    /\ ~n_raised
    /\ Len(n_responses) = 2
    /\ n_responses[1] = Unparsable
    /\ n_index = 1
    /\ n_piece # NoDocs

\* How many kept sentences the first j batches are made of.
RECURSIVE SentencesBefore(_)
SentencesBefore(j) == IF j = 0 THEN 0 ELSE SentencesBefore(j - 1) + b_out.made[j].n

\* C22: every sentence whose trimmed length is at least min_chars comes back
\* as a batch that is that sentence alone, whatever was buffered before it.
C22_LongSentenceAlone ==
    b_pc = "done" =>
        \A i \in 1..Len(KeptSentences) :
            Len(KeptSentences[i]) >= b_min_chars =>
                \E j \in 1..Len(b_out.batches) :
                    /\ SentencesBefore(j) = i
                    /\ b_out.made[j].n = 1
                    /\ b_out.batches[j] = KeptSentences[i]

\* The places of the lines of a piece document that are the heading of the
\* group of a meaning.
HeadingsOf(lines, meaning) == {i \in 1..Len(lines) : lines[i] = Heading(meaning)}

\* C23: as long as no call has raised, every backlink a merged piece asked
\* for stands in a group of its piece document whose heading is the meaning
\* of that piece: a line that is no heading was never taken for one, and a
\* meaning without a group got a new group.
C23_BacklinkUnderItsMeaning ==
    ~n_raised =>
        \A n \in 1..Len(AllLinks(n_responses, 0)) :
            \E link \in {AllLinks(n_responses, 0)[n]} :
                /\ link.file \in DOMAIN n_piece
                /\ \E lines \in {SplitLines(n_piece[link.file])} :
                    \E i \in HeadingsOf(lines, link.meaning) :
                        \E k \in 1..Len(GroupAt(lines, i)) :
                            GroupAt(lines, i)[k] = link.link

\* The step in which a result is appended is the step that invokes on_batch.
HookCalled == results' # results

\* C21: the hook runs in the step that makes its batch succeed and in no other
\* step: once per batch, in batch order, never for a batch that ended fatal,
\* with no call of a later batch submitted yet; and the running sentence index
\* after the hook is the index before it plus the number of sentence
\* documents the hook wrote.
C21_MergeBetweenDispatches ==
    [][ /\ HookCalled =>
              /\ Len(results') = Len(results) + 1
              /\ results'[Len(results')].batch = idx
              /\ idx' = idx
              /\ ResultsOf(idx) = {}
              /\ ~ExhaustedFatal(idx)
              /\ \A i \in 1..Len(results) : results[i].batch < idx
              /\ \A c \in running' : c[1] <= idx
              /\ \A i \in (Len(written) + 1)..Len(written') : written'[i].batch = idx
              /\ holder' = holder + (Len(written') - Len(written))
        /\ ~HookCalled => UNCHANGED <<holder, written, cb_failed>>
      ]_vars

\* The piece entries the sentence documents of an array list, named or not,
\* each with the piece document and the backlink it calls for, the first
\* record having the given index.
RECURSIVE EntriesOf(_, _)
EntriesOf(arr, index) ==
    IF arr = <<>> THEN <<>>
    ELSE LET obj == Head(arr)
         IN  [i \in 1..Len(obj.pieces) |->
                [file |-> sanitize_filename(Strip(obj.pieces[i].piece)),
                 meaning |-> Strip(obj.pieces[i].meaning),
                 link |-> Backlink(SentenceStem(index, obj), Strip(obj.sentence))]]
             \o EntriesOf(Tail(arr), index + 1)
\* The same for a list of responses.
RECURSIVE AllEntries(_, _)
AllEntries(responses, index) ==
    IF responses = <<>> THEN <<>>
    ELSE EntriesOf(Head(responses).records, index)
            \o AllEntries(Tail(responses), index + Len(Head(responses).records))

\* The sentence document a backlink line names: what stands between "[[" and
\* the first "|".
BacklinkTarget(line) ==
    LET bars == {k \in 8..Len(line) : line[k] = "|"}
        bar == IF bars = {} THEN Len(line) + 1 ELSE CHOOSE k \in bars : \A j \in bars : k <= j
    IN  SubSeq(line, 8, bar - 1)

\* C24: as long as no call has raised, every piece entry of every sentence
\* document has a piece document of its name that holds, in the group headed
\* by the entry's meaning, the backlink to that sentence document; and every
\* backlink of every piece document names a sentence document of the store.
C24_LinksBidirectional ==
    ~n_raised =>
        /\ \A n \in 1..Len(AllEntries(n_responses, 0)) :
               \E entry \in {AllEntries(n_responses, 0)[n]} :
                   /\ entry.file \in DOMAIN n_piece
                   /\ \E lines \in {SplitLines(n_piece[entry.file])} :
                       \E i \in HeadingsOf(lines, entry.meaning) :
                           \E k \in 1..Len(GroupAt(lines, i)) :
                               GroupAt(lines, i)[k] = entry.link
        /\ \A f \in DOMAIN n_piece :
               \A line \in {SplitLines(n_piece[f])[k] : k \in 1..Len(SplitLines(n_piece[f]))} :
                   IsBacklink(line) => BacklinkTarget(line) \in DOMAIN n_sentence

====
